---- MODULE Spec2Model ----
(***************************************************************************)
(* Feedback encyclopedia: the corpus normalizer, the two API routes        *)
(* (GET /api/feedback, POST /api/ai-search) and the page's retrieval       *)
(* state (plain filter, held AI result, ranking requests in flight).       *)
(*                                                                         *)
(* Strings are sequences of one-character strings, so that toLowerCase,    *)
(* includes and trim are computed rather than assumed.  Column labels are  *)
(* romanised: the sheet's headers are Korean.                              *)
(***************************************************************************)
EXTENDS Integers, Sequences, FiniteSets

VARIABLES
    \* ---- normalizer harness (pure function check)
    n_pc, n_rows, n_listing, n_ranking,
    \* ---- one API request being served
    method, body, apiKey, pc, srcOk, srvData, fetchCalls, geminiCalls,
    responseText, status, payload,
    \* ---- page.tsx component state
    loading, data, searchQuery, selectedCategory, aiAnalysisResults,
    isAiSearching, inFlight, alertShown, filteredData,
    \* ---- history: which request committed the held result
    heldFrom

normVars == <<n_pc, n_rows, n_listing, n_ranking>>
apiVars == <<method, body, apiKey, pc, srcOk, srvData, fetchCalls, geminiCalls,
             responseText, status, payload>>
uiVars == <<loading, data, searchQuery, selectedCategory, aiAnalysisResults,
            isAiSearching, inFlight, alertShown, filteredData, heldFrom>>
vars == <<normVars, apiVars, uiVars>>

(***************************************************************************)
(* Bounds                                                                  *)
(***************************************************************************)
\* longest raw-row sequence fed to the normalizer harness
MaxRows == 2
\* longest array the ranking service answers with
MaxIds == 2
\* most ranking requests the page model lets be in flight at once
MaxInFlight == 2

\* the prompt asks for the top 5 ids
TopN == 5

(***************************************************************************)
(* JavaScript values used by the routes                                    *)
(***************************************************************************)
\* row[k] of a key the row does not have
Undefined == <<"undefined">>
Null == <<"null">>
EmptyStr == <<>>

\* truthiness of a cell value: undefined, null and '' are falsy
Truthy(v) == v # Undefined /\ v # Null /\ v # EmptyStr

\* a || b
JsOr(a, b) == IF Truthy(a) THEN a ELSE b

\* row[k]
Get(row, k) == IF k \in DOMAIN row THEN row[k] ELSE Undefined

(***************************************************************************)
(* Corpus normalizer                                                       *)
(***************************************************************************)
\* sheet headers: daebunryu, munjejeom, solution (beojeon1), solution,
\* solution (beojeon2); "bigo" stands for any extraneous column
ColCategory == "daebunryu"
ColProblem == "munjejeom"
ColSolution1 == "solution (v1)"
ColSolution == "solution"
ColSolution2 == "solution (v2)"
ColExtra == "bigo"

\* the literal 'gita' ("other")
DefaultCategory == <<"g", "i", "t", "a">>

\* the object literal both routes build from a row
MapRow(row) ==
    [category |-> JsOr(Get(row, ColCategory), DefaultCategory),
     problem |-> JsOr(Get(row, ColProblem), EmptyStr),
     solution1 |-> JsOr(JsOr(Get(row, ColSolution1), Get(row, ColSolution)), EmptyStr),
     solution2 |-> JsOr(Get(row, ColSolution2), EmptyStr)]

\* the ranking route adds id: index
MapRowWithId(row, index) ==
    [id |-> index,
     category |-> JsOr(Get(row, ColCategory), DefaultCategory),
     problem |-> JsOr(Get(row, ColProblem), EmptyStr),
     solution1 |-> JsOr(JsOr(Get(row, ColSolution1), Get(row, ColSolution)), EmptyStr),
     solution2 |-> JsOr(Get(row, ColSolution2), EmptyStr)]

\* a filter that forgets solution2: item.problem && item.solution1
KeepItemNoSolution2(item) == Truthy(item.problem) /\ Truthy(item.solution1)

\* item.problem && (item.solution1 || item.solution2)
KeepItem(item) ==
    Truthy(item.problem) /\ (Truthy(item.solution1) \/ Truthy(item.solution2))

\* GET: parsed.data.map(...).filter(...)
NormalizeListing(rows) ==
    SelectSeq([i \in 1..Len(rows) |-> MapRow(rows[i])], KeepItem)

\* POST: parsed.data.map((row, index) => ...).filter(...)
NormalizeRanking(rows) ==
    SelectSeq([i \in 1..Len(rows) |-> MapRowWithId(rows[i], i - 1)], KeepItem)

(***************************************************************************)
(* Raw rows: what Papa.parse yields under header: true.  A row is a        *)
(* function from the header labels present to cell strings.                *)
(***************************************************************************)
CellStrings == {EmptyStr, <<"x">>}

HeaderLayouts ==
    { {ColCategory, ColProblem, ColSolution1, ColSolution2},
      {ColProblem, ColSolution, ColSolution2, ColExtra},
      {ColCategory, ColSolution1, ColSolution},
      {ColExtra} }

RawRows == UNION { [h -> CellStrings] : h \in HeaderLayouts }

SeqsUpTo(S, n) == UNION { [1..k -> S] : k \in 0..n }

RawRowSeqs == SeqsUpTo(RawRows, MaxRows)

(***************************************************************************)
(* The sheets the routes are served against: fixed CSV contents.           *)
(***************************************************************************)
RowFull ==
    [k \in {ColCategory, ColProblem, ColSolution1, ColSolution2} |->
        CASE k = ColCategory -> <<"A">>
          [] k = ColProblem -> <<"a", "b">>
          [] k = ColSolution1 -> <<"x">>
          [] OTHER -> EmptyStr]

RowBlankProblem ==
    [k \in {ColCategory, ColProblem, ColSolution1, ColSolution2} |->
        CASE k = ColCategory -> <<"A">>
          [] k = ColProblem -> EmptyStr
          [] k = ColSolution1 -> <<"x">>
          [] OTHER -> EmptyStr]

RowLegacy ==
    [k \in {ColProblem, ColSolution, ColExtra} |->
        CASE k = ColProblem -> <<"B", "a">>
          [] k = ColSolution -> <<"y">>
          [] OTHER -> <<"x">>]

RowJunk == [k \in {ColExtra} |-> <<"x">>]

\* ids after normalization: 0 and 2 (row 1 is dropped)
SheetA == <<RowFull, RowBlankProblem, RowLegacy>>
\* every row is dropped: a non-empty sheet with an empty corpus
SheetInvalid == <<RowBlankProblem, RowJunk>>
\* what an HTML error page parses to
SheetJunk == <<RowJunk>>

Sheets == {<<>>, SheetA, SheetInvalid, SheetJunk}
ErrorBodies == {<<>>, SheetJunk}

(***************************************************************************)
(* The ranking service's answer: text, as a sequence of characters.  A     *)
(* JSON value occupies one position of the text (its own characters are    *)
(* not spelled out); everything around it is.                              *)
(***************************************************************************)
JNone == [kind |-> "none", elems |-> <<>>]
Ch(c) == [ch |-> c, json |-> JNone]
JsonAtom(v) == [ch |-> "value", json |-> v]
Chars(cs) == [i \in 1..Len(cs) |-> Ch(cs[i])]

IntElem(n) == [t |-> "int", n |-> n]
StrElem(n) == [t |-> "str", n |-> n]
\* ids 0 and 2 exist in SheetA, 1 is its dropped row, "0" is a string
Elems == {IntElem(0), IntElem(1), IntElem(2), StrElem(0)}

JArray(es) == [kind |-> "array", elems |-> es]
JNumber == [kind |-> "number", elems |-> <<>>]
JObject == [kind |-> "object", elems |-> <<>>]
JString == [kind |-> "string", elems |-> <<>>]
JNull == [kind |-> "null", elems |-> <<>>]

JsonValues ==
    { JArray(es) : es \in SeqsUpTo(Elems, MaxIds) } \cup {JNumber, JObject, JString, JNull}

\* the backquote character
BQ == "BQ"
FenceJson == Chars(<<BQ, BQ, BQ, "j", "s", "o", "n">>)
Fence == Chars(<<BQ, BQ, BQ>>)
WordJson == Chars(<<"j", "s", "o", "n">>)
NL == Chars(<<"\n">>)

TextShapes(v) ==
    { <<JsonAtom(v)>>,
      FenceJson \o NL \o <<JsonAtom(v)>> \o NL \o Fence,
      Fence \o <<JsonAtom(v)>> \o Fence,
      WordJson \o NL \o <<JsonAtom(v)>>,
      Chars(<<"S", "u", "r", "e", "!", " ">>) \o <<JsonAtom(v)>>,
      WordJson \o WordJson \o <<JsonAtom(v)>>,
      NL \o <<JsonAtom(v)>> \o Chars(<<" ">>) }

ResponseTexts == UNION { TextShapes(v) : v \in JsonValues } \cup {<<>>, Fence}

\* ---- String.prototype helpers on character sequences
StartsWith(s, pat) == Len(s) >= Len(pat) /\ SubSeq(s, 1, Len(pat)) = pat

Drop(s, n) == SubSeq(s, n + 1, Len(s))

\* s.replace(/pat/g, ""): leftmost non-overlapping matches removed
RECURSIVE RemoveAll(_, _)
RemoveAll(s, pat) ==
    IF s = <<>> THEN <<>>
    ELSE IF StartsWith(s, pat) THEN RemoveAll(Drop(s, Len(pat)), pat)
    ELSE <<Head(s)>> \o RemoveAll(Tail(s), pat)

IsSpace(c) == c.ch \in {" ", "\n"}

RECURSIVE TrimStart(_)
TrimStart(s) == IF s # <<>> /\ IsSpace(Head(s)) THEN TrimStart(Tail(s)) ELSE s

RECURSIVE TrimEnd(_)
TrimEnd(s) ==
    IF s # <<>> /\ IsSpace(s[Len(s)]) THEN TrimEnd(SubSeq(s, 1, Len(s) - 1)) ELSE s

Trim(s) == TrimEnd(TrimStart(s))

\* responseText.replace(/BQBQBQjson/g, "").replace(/BQBQBQ/g, "").trim(), then a
\* leading "json" sliced off and trimmed again
CleanText(text) ==
    LET cleaned == Trim(RemoveAll(RemoveAll(text, FenceJson), Fence))
    IN IF StartsWith(cleaned, WordJson) THEN Trim(Drop(cleaned, 4)) ELSE cleaned

\* JSON.parse: the text must be one JSON value, whitespace around it allowed
JsonParses(s) == Len(Trim(s)) = 1 /\ Trim(s)[1].ch = "value"
JsonParse(s) == Trim(s)[1].json

\* a lookup by position in the filtered corpus instead of by id: data[id]
FindByPosition(corpus, el) ==
    IF el.t = "int" /\ el.n + 1 \in 1..Len(corpus) THEN <<corpus[el.n + 1]>> ELSE <<>>

\* data.find((item) => item.id === id), as a sequence: the entry found, or
\* none (undefined)
Find(corpus, el) ==
    IF \E i \in 1..Len(corpus) : el.t = "int" /\ corpus[i].id = el.n
    THEN <<corpus[CHOOSE i \in 1..Len(corpus) :
                      /\ el.t = "int" /\ corpus[i].id = el.n
                      /\ \A j \in 1..(i - 1) : corpus[j].id # el.n]>>
    ELSE <<>>

RECURSIVE Flatten(_)
Flatten(ss) == IF ss = <<>> THEN <<>> ELSE Head(ss) \o Flatten(Tail(ss))

\* sortedIds.map(id => data.find(...)).filter(Boolean)
SortedData(ids, corpus) ==
    Flatten([i \in 1..Len(ids) |-> Find(corpus, ids[i])])

(***************************************************************************)
(* POST /api/ai-search and GET /api/feedback: one request being served.    *)
(***************************************************************************)
\* a query that is not a string (a number, say)
NumberValue == <<"number">>

\* the request body: text request.json() rejects, the JSON value null, or
\* an object whose query key is absent (Undefined) or holds a value
Bodies ==
    { [kind |-> "invalid", query |-> Undefined],
      [kind |-> "null", query |-> Undefined] }
    \cup { [kind |-> "object", query |-> q] :
             q \in {Undefined, Null, EmptyStr, <<"a">>, <<" ">>, NumberValue} }

IsNullish(v) == v = Undefined \/ v = Null
IsString(v) == ~IsNullish(v) /\ v # NumberValue

\* NextResponse.json(payload, {status})
Respond(st, pl) ==
    /\ status' = st
    /\ payload' = pl
    /\ pc' = "responded"

\* the outer catch of POST
PostCatch == Respond(500, <<>>)

\* lines 14-30: request.json(), the log line, the two precondition checks,
\* then fetch(CSV_URL) is issued
PostValidate ==
    /\ method = "POST" /\ pc = "start"
    /\ IF body.kind # "object"
       THEN PostCatch /\ UNCHANGED fetchCalls
       ELSE IF ~IsNullish(body.query) /\ ~IsString(body.query)
       THEN PostCatch /\ UNCHANGED fetchCalls
       ELSE IF ~Truthy(body.query)
       THEN Respond(400, <<>>) /\ UNCHANGED fetchCalls
       ELSE IF ~apiKey
       THEN Respond(503, <<>>) /\ UNCHANGED fetchCalls
       ELSE /\ fetchCalls' = fetchCalls + 1
            /\ pc' = "fetch"
            /\ UNCHANGED <<status, payload>>
    /\ UNCHANGED <<method, body, apiKey, srcOk, srvData, geminiCalls, responseText>>

\* fetch(CSV_URL) or response.text() rejects
PostFetchRejects ==
    /\ method = "POST" /\ pc = "fetch"
    /\ srcOk' = "rejected"
    /\ PostCatch
    /\ UNCHANGED <<method, body, apiKey, srvData, fetchCalls, geminiCalls, responseText>>

\* lines 31-34: the source answers with a non-success status
PostFetchNotOk ==
    /\ method = "POST" /\ pc = "fetch"
    /\ srcOk' = "notok"
    /\ PostCatch
    /\ UNCHANGED <<method, body, apiKey, srvData, fetchCalls, geminiCalls, responseText>>

\* lines 35-72: the CSV arrives, is parsed and normalized, the prompt is
\* built and model.generateContent(prompt) is called
PostFetchOk(rows) ==
    /\ method = "POST" /\ pc = "fetch"
    /\ srcOk' = "ok"
    /\ srvData' = NormalizeRanking(rows)
    /\ geminiCalls' = geminiCalls + 1
    /\ pc' = "generate"
    /\ UNCHANGED <<method, body, apiKey, fetchCalls, responseText, status, payload>>

\* generateContent rejects (network, auth, quota) or response.text() throws
PostGenerateRejects ==
    /\ method = "POST" /\ pc = "generate"
    /\ PostCatch
    /\ UNCHANGED <<method, body, apiKey, srcOk, srvData, fetchCalls, geminiCalls,
                   responseText>>

\* lines 73-101: the answer is cleaned and parsed; a parse failure, or a
\* parsed value without .map, ends in the outer catch
PostGenerateOk(text) ==
    /\ method = "POST" /\ pc = "generate"
    /\ responseText' = text
    /\ IF ~JsonParses(CleanText(text))
       THEN PostCatch
       ELSE IF JsonParse(CleanText(text)).kind # "array"
       THEN PostCatch
       ELSE Respond(200, SortedData(JsonParse(CleanText(text)).elems, srvData))
    /\ UNCHANGED <<method, body, apiKey, srcOk, srvData, fetchCalls, geminiCalls>>

\* GET line 9: fetch(CSV_URL) is issued
GetStart ==
    /\ method = "GET" /\ pc = "start"
    /\ fetchCalls' = fetchCalls + 1
    /\ pc' = "fetch"
    /\ UNCHANGED <<method, body, apiKey, srcOk, srvData, geminiCalls, responseText,
                   status, payload>>

\* GET lines 27-30: fetch or response.text() rejects
GetFetchRejects ==
    /\ method = "GET" /\ pc = "fetch"
    /\ srcOk' = "rejected"
    /\ Respond(500, <<>>)
    /\ UNCHANGED <<method, body, apiKey, srvData, fetchCalls, geminiCalls, responseText>>

\* GET lines 10-26: whatever the source answered is parsed, normalized and
\* returned; response.ok is not read
GetFetchResolves(ok, rows) ==
    /\ method = "GET" /\ pc = "fetch"
    /\ srcOk' = IF ok THEN "ok" ELSE "notok"
    /\ srvData' = NormalizeListing(rows)
    /\ Respond(200, NormalizeListing(rows))
    /\ UNCHANGED <<method, body, apiKey, fetchCalls, geminiCalls, responseText>>

(***************************************************************************)
(* page.tsx: the Home component's state and handlers.                      *)
(***************************************************************************)
\* the facet "All"
All == <<"A", "l", "l">>

\* aiAnalysisResults: FeedbackItem[] | null
NullResult == [isNull |-> TRUE, items |-> <<>>]
Results(items) == [isNull |-> FALSE, items |-> items]

LowerChar(c) == CASE c = "A" -> "a" [] c = "B" -> "b" [] OTHER -> c

\* String.prototype.toLowerCase
ToLowerCase(s) == [i \in 1..Len(s) |-> LowerChar(s[i])]

\* String.prototype.includes
Includes(s, sub) ==
    \E i \in 0..(Len(s) - Len(sub)) : SubSeq(s, i + 1, i + Len(sub)) = sub

RECURSIVE StrTrimStart(_)
StrTrimStart(s) == IF s # <<>> /\ Head(s) = " " THEN StrTrimStart(Tail(s)) ELSE s

RECURSIVE StrTrimEnd(_)
StrTrimEnd(s) ==
    IF s # <<>> /\ s[Len(s)] = " " THEN StrTrimEnd(SubSeq(s, 1, Len(s) - 1)) ELSE s

\* searchQuery.trim()
StrTrim(s) == StrTrimEnd(StrTrimStart(s))

\* the callback of data.filter in filteredData
MatchesItem(item, q, cat) ==
    LET matchesCategory == cat = All \/ item.category = cat
        lq == ToLowerCase(q)
        matchesSearch ==
            \/ Includes(ToLowerCase(item.problem), lq)
            \/ Includes(ToLowerCase(item.solution1), lq)
            \/ (Truthy(item.solution2) /\ Includes(ToLowerCase(item.solution2), lq))
            \/ Includes(ToLowerCase(item.category), lq)
    IN matchesCategory /\ matchesSearch

StandardFilter(d, q, cat) == SelectSeq(d, LAMBDA item : MatchesItem(item, q, cat))

\* a useMemo that tests aiAnalysisResults.length instead of the array itself
FilteredDataIfNonEmpty(d, q, cat, ai) ==
    IF ~ai.isNull /\ ai.items # <<>> THEN ai.items ELSE StandardFilter(d, q, cat)

\* the useMemo computing filteredData: an array, even [], is truthy
FilteredData(d, q, cat, ai) ==
    IF ~ai.isNull THEN ai.items ELSE StandardFilter(d, q, cat)

\* the re-render after a handler's state updates
Render ==
    filteredData' = FilteredData(data', searchQuery', selectedCategory', aiAnalysisResults')

RECURSIVE Unique(_)
Unique(s) ==
    IF s = <<>> THEN <<>>
    ELSE LET rest == Unique(SubSeq(s, 1, Len(s) - 1))
             last == s[Len(s)]
         IN IF \E i \in 1..Len(rest) : rest[i] = last THEN rest ELSE Append(rest, last)

\* categories: ["All", ...new Set(data.map(item => item.category))]
Categories(d) == <<All>> \o Unique([i \in 1..Len(d) |-> d[i].category])

\* every request in flight has been overtaken by a clearing action
Superseded(reqs) == [i \in 1..Len(reqs) |-> [reqs[i] EXCEPT !.stale = TRUE]]

\* the request at position i has committed its result and left the list:
\* the requests now at positions i and up were triggered after it, the ones
\* below i before it
Overtaken(reqs, i) ==
    [j \in 1..Len(reqs) |-> [reqs[j] EXCEPT !.heldIsOlder = (j >= i)]]

RemoveAt(s, i) == SubSeq(s, 1, i - 1) \o SubSeq(s, i + 1, Len(s))

\* what the search box can be set to
QueryInputs == {EmptyStr, <<" ">>, <<"A">>, <<"b">>, <<"B", "A">>}

\* what GET /api/feedback can answer the page with
Listings == {NormalizeListing(sh) : sh \in Sheets}

\* what POST /api/ai-search can answer with status 200
RankedOutcomes ==
    { SortedData(ids, NormalizeRanking(SheetA)) : ids \in SeqsUpTo(Elems, MaxIds) }

\* fetchData's continuation: res.ok and res.json() succeeded, or not
FetchDataDone(ok, json) ==
    /\ loading
    /\ data' = IF ok THEN json ELSE data
    /\ loading' = FALSE
    /\ alertShown' = "none"
    /\ UNCHANGED <<searchQuery, selectedCategory, aiAnalysisResults, isAiSearching,
                   inFlight, heldFrom>>
    /\ Render

\* the search input's onChange
ChangeSearch(v) ==
    /\ ~loading
    /\ v # searchQuery
    /\ searchQuery' = v
    /\ IF v = EmptyStr
       THEN /\ aiAnalysisResults' = NullResult
            /\ heldFrom' = "none"
            /\ inFlight' = Superseded(inFlight)
       ELSE UNCHANGED <<aiAnalysisResults, heldFrom, inFlight>>
    /\ alertShown' = "none"
    /\ UNCHANGED <<loading, data, selectedCategory, isAiSearching>>
    /\ Render

\* a category button's onClick
ClickCategory(c) ==
    /\ ~loading
    /\ \E i \in 1..Len(Categories(data)) : Categories(data)[i] = c
    /\ selectedCategory' = c
    /\ aiAnalysisResults' = NullResult
    /\ heldFrom' = "none"
    /\ inFlight' = Superseded(inFlight)
    /\ alertShown' = "none"
    /\ UNCHANGED <<loading, data, searchQuery, isAiSearching>>
    /\ Render

\* handleAiSearch up to its first await: the blank-query return, the two
\* state updates, and the POST being sent
\* a request as it leaves the page: the query sent, and its history (stale:
\* a clearing handler ran since; heldIsOlder: the result last committed came
\* from a request triggered before this one, while this one was in flight)
NewRequest ==
    [query |-> searchQuery, stale |-> FALSE, heldIsOlder |-> FALSE]

HandleAiSearch ==
    /\ StrTrim(searchQuery) # EmptyStr
    /\ Len(inFlight) < MaxInFlight
    /\ isAiSearching' = TRUE
    /\ aiAnalysisResults' = NullResult
    /\ heldFrom' = "none"
    /\ inFlight' = Append(inFlight, NewRequest)
    /\ alertShown' = "none"
    /\ UNCHANGED <<loading, data, searchQuery, selectedCategory>>
    /\ Render

\* the AI search button: disabled={isAiSearching}
ClickAiSearch ==
    /\ ~loading
    /\ ~isAiSearching
    /\ HandleAiSearch

\* the search input's onKeyDown: e.key === 'Enter' && handleAiSearch()
PressEnter ==
    /\ ~loading
    /\ HandleAiSearch

\* clearAiResults, on the dismiss button shown while a result is held
ClearAiResults ==
    /\ ~loading
    /\ ~aiAnalysisResults.isNull
    /\ aiAnalysisResults' = NullResult
    /\ heldFrom' = "none"
    /\ searchQuery' = EmptyStr
    /\ inFlight' = Superseded(inFlight)
    /\ alertShown' = "none"
    /\ UNCHANGED <<loading, data, selectedCategory, isAiSearching>>
    /\ Render

\* handleAiSearch after its awaits, res.ok and a body that parses
ResolveOk(i, results) ==
    /\ i \in 1..Len(inFlight)
    /\ aiAnalysisResults' = Results(results)
    /\ heldFrom' = IF inFlight[i].stale THEN "superseded" ELSE "fresh"
    /\ selectedCategory' = All
    /\ isAiSearching' = FALSE
    /\ inFlight' = Overtaken(RemoveAt(inFlight, i), i)
    /\ alertShown' = "none"
    /\ UNCHANGED <<loading, data, searchQuery>>
    /\ Render

\* handleAiSearch after its awaits, status 503 and an error body that parses
ResolveNotConfigured(i) ==
    /\ i \in 1..Len(inFlight)
    /\ alertShown' = "config"
    /\ isAiSearching' = FALSE
    /\ inFlight' = RemoveAt(inFlight, i)
    /\ UNCHANGED <<loading, data, searchQuery, selectedCategory, aiAnalysisResults,
                   heldFrom>>
    /\ Render

\* handleAiSearch after its awaits: fetch rejected, a body that does not
\* parse, or any other non-OK status; all end in the catch block
ResolveFailed(i) ==
    /\ i \in 1..Len(inFlight)
    /\ alertShown' = "generic"
    /\ isAiSearching' = FALSE
    /\ inFlight' = RemoveAt(inFlight, i)
    /\ UNCHANGED <<loading, data, searchQuery, selectedCategory, aiAnalysisResults,
                   heldFrom>>
    /\ Render

(***************************************************************************)
(* Normalizer harness: both passes applied to bounded raw-row sequences.   *)
(***************************************************************************)
RunListing ==
    /\ "listing" \notin n_pc
    /\ n_listing' = NormalizeListing(n_rows)
    /\ n_pc' = n_pc \cup {"listing"}
    /\ UNCHANGED <<n_rows, n_ranking>>

RunRanking ==
    /\ "ranking" \notin n_pc
    /\ n_ranking' = NormalizeRanking(n_rows)
    /\ n_pc' = n_pc \cup {"ranking"}
    /\ UNCHANGED <<n_rows, n_listing>>

(***************************************************************************)
(* Specifications                                                          *)
(***************************************************************************)
NormIdle ==
    /\ n_pc = {}
    /\ n_rows = <<>>
    /\ n_listing = <<>>
    /\ n_ranking = <<>>

ApiIdle ==
    /\ method = "none"
    /\ body = [kind |-> "invalid", query |-> Undefined]
    /\ apiKey = FALSE
    /\ pc = "idle"
    /\ srcOk = "none"
    /\ srvData = <<>>
    /\ fetchCalls = 0
    /\ geminiCalls = 0
    /\ responseText = <<>>
    /\ status = 0
    /\ payload = <<>>

\* the useState initial values of Home
UiInit ==
    /\ loading = TRUE
    /\ data = <<>>
    /\ searchQuery = EmptyStr
    /\ selectedCategory = All
    /\ aiAnalysisResults = NullResult
    /\ isAiSearching = FALSE
    /\ inFlight = <<>>
    /\ alertShown = "none"
    /\ filteredData = <<>>
    /\ heldFrom = "none"

InitNorm ==
    /\ n_pc = {}
    /\ n_rows \in RawRowSeqs
    /\ n_listing = <<>>
    /\ n_ranking = <<>>
    /\ ApiIdle
    /\ UiInit

NextNorm ==
    \/ RunListing /\ UNCHANGED <<apiVars, uiVars>>
    \/ RunRanking /\ UNCHANGED <<apiVars, uiVars>>

SpecNorm == InitNorm /\ [][NextNorm]_vars

InitApi ==
    /\ method \in {"GET", "POST"}
    /\ body \in Bodies
    /\ method = "GET" => body.kind = "invalid"
    /\ apiKey \in BOOLEAN
    /\ pc = "start"
    /\ srcOk = "none"
    /\ srvData = <<>>
    /\ fetchCalls = 0
    /\ geminiCalls = 0
    /\ responseText = <<>>
    /\ status = 0
    /\ payload = <<>>
    /\ NormIdle
    /\ UiInit

\* the page's fetchData receiving the GET route's answer
ClientFetchData ==
    /\ method = "GET" /\ pc = "responded"
    /\ pc' = "done"
    /\ FetchDataDone(status = 200, payload)
    /\ UNCHANGED <<method, body, apiKey, srcOk, srvData, fetchCalls, geminiCalls,
                   responseText, status, payload>>

NextApi ==
    \/ PostValidate /\ UNCHANGED <<normVars, uiVars>>
    \/ PostFetchRejects /\ UNCHANGED <<normVars, uiVars>>
    \/ PostFetchNotOk /\ UNCHANGED <<normVars, uiVars>>
    \/ \E rows \in Sheets : PostFetchOk(rows) /\ UNCHANGED <<normVars, uiVars>>
    \/ PostGenerateRejects /\ UNCHANGED <<normVars, uiVars>>
    \/ \E text \in ResponseTexts : PostGenerateOk(text) /\ UNCHANGED <<normVars, uiVars>>
    \/ GetStart /\ UNCHANGED <<normVars, uiVars>>
    \/ GetFetchRejects /\ UNCHANGED <<normVars, uiVars>>
    \/ \E rows \in Sheets : GetFetchResolves(TRUE, rows) /\ UNCHANGED <<normVars, uiVars>>
    \/ \E rows \in ErrorBodies : GetFetchResolves(FALSE, rows) /\ UNCHANGED <<normVars, uiVars>>
    \/ ClientFetchData /\ UNCHANGED normVars

SpecApi == InitApi /\ [][NextApi]_vars

InitUi ==
    /\ UiInit
    /\ NormIdle
    /\ ApiIdle

NextUi ==
    \/ \E list \in Listings : FetchDataDone(TRUE, list) /\ UNCHANGED <<normVars, apiVars>>
    \/ FetchDataDone(FALSE, <<>>) /\ UNCHANGED <<normVars, apiVars>>
    \/ \E v \in QueryInputs : ChangeSearch(v) /\ UNCHANGED <<normVars, apiVars>>
    \/ \E i \in 1..Len(Categories(data)) :
          ClickCategory(Categories(data)[i]) /\ UNCHANGED <<normVars, apiVars>>
    \/ ClickAiSearch /\ UNCHANGED <<normVars, apiVars>>
    \/ PressEnter /\ UNCHANGED <<normVars, apiVars>>
    \/ ClearAiResults /\ UNCHANGED <<normVars, apiVars>>
    \/ \E i \in 1..Len(inFlight), results \in RankedOutcomes :
          ResolveOk(i, results) /\ UNCHANGED <<normVars, apiVars>>
    \/ \E i \in 1..Len(inFlight) : ResolveNotConfigured(i) /\ UNCHANGED <<normVars, apiVars>>
    \/ \E i \in 1..Len(inFlight) : ResolveFailed(i) /\ UNCHANGED <<normVars, apiVars>>

SpecUi == InitUi /\ [][NextUi]_vars

(***************************************************************************)
(* Properties                                                              *)
(***************************************************************************)
\* q occurs in s somewhere, letter case ignored
C1_OccursIn(q, s) ==
    \E pre, post \in 0..Len(s) :
        /\ pre + Len(q) + post = Len(s)
        /\ \A k \in 1..Len(q) : LowerChar(s[pre + k]) = LowerChar(q[k])

\* rule 2 of the precedence rule, for one entry
C1_PlainMatch(item) ==
    /\ selectedCategory = All \/ item.category = selectedCategory
    /\ \/ searchQuery = EmptyStr
       \/ C1_OccursIn(searchQuery, item.problem)
       \/ C1_OccursIn(searchQuery, item.solution1)
       \/ (item.solution2 # EmptyStr /\ C1_OccursIn(searchQuery, item.solution2))
       \/ C1_OccursIn(searchQuery, item.category)

\* the entries of data that pass rule 2, in data's order
C1_PlainList == SelectSeq(data, C1_PlainMatch)

\* C1: the display list is the held AI result verbatim whenever one is held
\* (the empty one included), whatever the facet and the search text are, and
\* the corpus filtered by facet and case-insensitive substring only when none
\* is held.
C1_DisplayByOneBranch ==
    /\ ~aiAnalysisResults.isNull => filteredData = aiAnalysisResults.items
    /\ aiAnalysisResults.isNull => filteredData = C1_PlainList

\* an empty result is held while the plain filter would list entries
C1_Witness ==
    /\ ~aiAnalysisResults.isNull
    /\ aiAnalysisResults.items = <<>>
    /\ searchQuery # EmptyStr
    /\ C1_PlainList # <<>>
    /\ filteredData = <<>>

\* C2: a ranking call in flight when the search text is cleared, the result
\* dismissed or a facet clicked never commits its result: a held result was
\* committed by a request issued after the last such action.
C2_StaleCompletionDiscarded ==
    ~aiAnalysisResults.isNull => heldFrom = "fresh"

\* C3: at most one ranking request is in flight at any time.
C3_SingleFlight == Len(inFlight) <= 1

\* C4: when a ranking request has just failed (an alert is up), no AI result
\* is held and the display list is the plain-filter list.
C4_FailureLeavesCleared ==
    alertShown # "none" =>
        /\ aiAnalysisResults.isNull
        /\ filteredData = C1_PlainList

\* the query of the request is empty or missing
C5_QueryMissing == body.kind # "object" \/ body.query \in {Undefined, Null, EmptyStr}

\* C5: every POST is answered 400 when the query is empty or missing,
\* otherwise 503 when the credential is missing, otherwise 500 for every
\* other failure and 200 only when nothing failed; 503 comes from nothing
\* else, and no external call precedes the two checks.
C5_OneOutcomeClass ==
    (method = "POST" /\ pc = "responded") =>
        /\ status \in {200, 400, 500, 503}
        /\ C5_QueryMissing => status = 400
        /\ (~C5_QueryMissing /\ ~apiKey) => status = 503
        /\ (~C5_QueryMissing /\ apiKey) => status \in {200, 500}
        /\ status = 200 => (srcOk = "ok" /\ JsonParses(CleanText(responseText)))
        /\ status \in {400, 503} => (fetchCalls = 0 /\ geminiCalls = 0)

\* C6: when the source fetch failed (rejected, or a non-success answer) the
\* GET route answers 500, and the page's listing stays empty.
C6_SourceFailureIsServerFault ==
    (method = "GET" /\ pc \in {"responded", "done"} /\ srcOk \in {"rejected", "notok"}) =>
        /\ status = 500
        /\ pc = "done" => data = <<>>

\* the sanitized answer is a JSON array of integers
C7_IsIntegerArray(text) ==
    /\ JsonParses(CleanText(text))
    /\ JsonParse(CleanText(text)).kind = "array"
    /\ \A k \in 1..Len(JsonParse(CleanText(text)).elems) :
          JsonParse(CleanText(text)).elems[k].t = "int"

\* C7: a ranking that succeeds had an answer whose sanitized text is a JSON
\* array of integers; any other answer ends in an error.
C7_MalformedAnswerFails ==
    (method = "POST" /\ pc = "responded" /\ status = 200) =>
        C7_IsIntegerArray(responseText)

\* C8: a successful ranking is made of entries of the request's corpus, at
\* most TopN of them, none twice.
C8_RankedResultShape ==
    (method = "POST" /\ pc = "responded" /\ status = 200) =>
        /\ \A k \in 1..Len(payload) : \E j \in 1..Len(srvData) : payload[k] = srvData[j]
        /\ Len(payload) <= TopN
        /\ \A k, l \in 1..Len(payload) : k # l => payload[k] # payload[l]

\* the row has a non-empty cell under label k
C9_HasText(row, k) == k \in DOMAIN row /\ row[k] # EmptyStr

\* the entry invariant, on the raw row
C9_Keeps(row) ==
    /\ C9_HasText(row, ColProblem)
    /\ \/ C9_HasText(row, ColSolution1)
       \/ C9_HasText(row, ColSolution)
       \/ C9_HasText(row, ColSolution2)

\* the column mapping table
C9_Entry(row) ==
    [category |-> IF C9_HasText(row, ColCategory) THEN row[ColCategory] ELSE DefaultCategory,
     problem |-> IF C9_HasText(row, ColProblem) THEN row[ColProblem] ELSE EmptyStr,
     solution1 |-> IF C9_HasText(row, ColSolution1) THEN row[ColSolution1]
                   ELSE IF C9_HasText(row, ColSolution) THEN row[ColSolution]
                   ELSE EmptyStr,
     solution2 |-> IF C9_HasText(row, ColSolution2) THEN row[ColSolution2] ELSE EmptyStr]

RECURSIVE C9_Expected(_, _)
C9_Expected(rows, withId) ==
    IF rows = <<>> THEN <<>>
    ELSE LET n == Len(rows)
             e == C9_Entry(rows[n])
             last == IF withId
                     THEN [id |-> n - 1, category |-> e.category, problem |-> e.problem,
                           solution1 |-> e.solution1, solution2 |-> e.solution2]
                     ELSE e
         IN C9_Expected(SubSeq(rows, 1, n - 1), withId)
            \o (IF C9_Keeps(rows[n]) THEN <<last>> ELSE <<>>)

C9_ValidEntry(e) ==
    /\ e.problem # EmptyStr
    /\ e.solution1 # EmptyStr \/ e.solution2 # EmptyStr
    /\ e.category # EmptyStr

\* C9: both normalization passes keep exactly the rows with a problem and a
\* solution (solution1 falling back to the plain solution column), output
\* only valid entries, and never leave category empty.
C9_NormalizationKeepsValidRows ==
    /\ "listing" \in n_pc =>
          /\ n_listing = C9_Expected(n_rows, FALSE)
          /\ \A k \in 1..Len(n_listing) : C9_ValidEntry(n_listing[k])
    /\ "ranking" \in n_pc =>
          /\ n_ranking = C9_Expected(n_rows, TRUE)
          /\ \A k \in 1..Len(n_ranking) : C9_ValidEntry(n_ranking[k])

\* both passes ran on two rows: the first dropped, the second kept through
\* the fallback solution column with the default category
C9_Witness ==
    /\ n_pc = {"listing", "ranking"}
    /\ Len(n_rows) = 2
    /\ ~C9_Keeps(n_rows[1])
    /\ ColProblem \in DOMAIN n_rows[1]
    /\ ColSolution \in DOMAIN n_rows[2]
    /\ ColCategory \notin DOMAIN n_rows[2]
    /\ Len(n_listing) = 1
    /\ Len(n_ranking) = 1
    /\ n_ranking[1].id = 1
    /\ n_ranking[1].category = DefaultCategory
    /\ n_ranking[1].solution1 = n_rows[2][ColSolution]
    /\ n_ranking[1].solution2 = EmptyStr

\* C10: with an empty normalized corpus the ranking answers the empty
\* sequence and the ranking service is never called.
C10_EmptyCorpusSkipsService ==
    (method = "POST" /\ srcOk = "ok" /\ srvData = <<>>) =>
        /\ geminiCalls = 0
        /\ pc = "responded" => (status = 200 /\ payload = <<>>)

\* a ranking request was triggered in this step
C11_Triggered == Len(inFlight') = Len(inFlight) + 1

\* the first half of C11: the step that triggers a ranking request leaves
\* the held result null and the loading flag true
C11_TriggerStepClears ==
    [][C11_Triggered =>
          (aiAnalysisResults'.isNull /\ isAiSearching' /\ alertShown' = "none")]_vars

\* C11: at no time while a ranking request is in flight is a result held or
\* displayed that was obtained from a request triggered before it: the
\* trigger cleared what was held, and nothing older may be committed since.
C11_NoOlderResultWhileInFlight ==
    \A i \in 1..Len(inFlight) :
        inFlight[i].heldIsOlder =>
            (aiAnalysisResults.isNull /\ filteredData = C1_PlainList)

\* the positions of the corpus entries whose id is exactly the element
C12_Matches(corpus, el) ==
    { j \in 1..Len(corpus) : el.t = "int" /\ corpus[j].id = el.n }

\* the id array mapped in its order, elements without a match left out
RECURSIVE C12_Mapped(_, _)
C12_Mapped(ids, corpus) ==
    IF ids = <<>> THEN <<>>
    ELSE LET n == Len(ids)
             m == C12_Matches(corpus, ids[n])
         IN C12_Mapped(SubSeq(ids, 1, n - 1), corpus)
            \o (IF m = {} THEN <<>> ELSE <<corpus[CHOOSE j \in m : TRUE]>>)

\* C12: whenever the answer parses to an array the ranking succeeds with the
\* array mapped in its order to the corpus entries of exactly equal id,
\* unmatched elements dropped; the ids of a corpus are strictly increasing
\* row ordinals, so an id matches at most one entry.
C12_ResultIsIdArrayMapped ==
    /\ method = "POST" =>
          /\ \A j, k \in 1..Len(srvData) : j < k => srvData[j].id < srvData[k].id
          /\ \A j \in 1..Len(srvData) : srvData[j].id >= 0
    /\ (/\ method = "POST" /\ pc = "responded"
        /\ JsonParses(CleanText(responseText))
        /\ JsonParse(CleanText(responseText)).kind = "array") =>
          /\ status = 200
          /\ payload = C12_Mapped(JsonParse(CleanText(responseText)).elems, srvData)
          /\ \A k \in 1..Len(JsonParse(CleanText(responseText)).elems) :
                Cardinality(C12_Matches(srvData, JsonParse(CleanText(responseText)).elems[k])) <= 1

\* the answer [2, 0] against the corpus with ids 0 and 2: both found, in the
\* answer's order, id 2 sitting at position 2 of the corpus
C12_Witness ==
    /\ method = "POST" /\ pc = "responded" /\ status = 200
    /\ JsonParses(CleanText(responseText))
    /\ JsonParse(CleanText(responseText)).elems = <<IntElem(2), IntElem(0)>>
    /\ Len(srvData) = 2
    /\ Len(payload) = 2
    /\ payload[1].id = 2 /\ payload[1] = srvData[2]
    /\ payload[2].id = 0 /\ payload[2] = srvData[1]

====
